---- MODULE Spec2Model ----
(***************************************************************************)
(* Model of src/logger/logger.go: the four package-level severity channels *)
(* (Info, Trace, Warn, Error), the tracked closer previousIo, the mutators *)
(* Switch and Close, and the write path I/T/W/E -> Println -> doPrintln.   *)
(*                                                                         *)
(* Spec     : the operations called one after another by a single caller.  *)
(* SpecConc : goroutines running the same operations statement by          *)
(*            statement, without any synchronisation (the code has none).  *)
(***************************************************************************)
EXTENDS Integers, Sequences, FiniteSets

----------------------------------------------------------------------------
(* Bounds *)

\* Number of Switch/Close calls one sequential run performs.
MaxOps == 4

\* Number of Switch/Close calls the goroutines of one concurrent run start.
MaxConcOps == 2

----------------------------------------------------------------------------
(* Values *)

Nil == "nil"

\* os.Stdout and ioutil.Discard, and the writers a caller may hand to Switch.
Stdout == "os.Stdout"
Discard == "ioutil.Discard"
Writers == {Stdout, "f1", "b1", "b2"}

\* The writers that also implement io.Closer (os.Stdout is an *os.File).
Closers == {Stdout, "f1"}

\* What a sink's Close() may return.
NoErr == "nil"
CloseResults == {NoErr, "EIO"}

Levels == {"Info", "Trace", "Warn", "Error"}

logInfoLabel == "[info] "
logTraceLabel == "[trace] "
logWarnLabel == "[warn] "
logErrorLabel == "[error] "

colorYellow == "\\033[33m"
colorRed == "\\033[31m"
colorBlack == "\\033[0m"

Label(l) ==
  CASE l = "Info" -> logInfoLabel
    [] l = "Trace" -> logTraceLabel
    [] l = "Warn" -> logWarnLabel
    [] l = "Error" -> logErrorLabel

\* &loggerPlus{logger: log.New(w, label, flags)}: a fresh object (id is its
\* address) whose logger writes to w.
NewLoggerPlus(id, w, label) == [id |-> id, out |-> w, prefix |-> label]

VARIABLES
  Info, Trace, Warn, Error,   \* the package-level channels
  previousIo,                 \* the tracked io.Closer, or Nil
  nalloc,                     \* number of loggerPlus objects allocated so far
  nops,                       \* Switch/Close calls made so far
  lastOp,                     \* the last sequential call and what it did
  prevSwitch, lastSwitch,     \* arguments of the two most recent Switch calls
  closesSince,                \* Close calls since the last Switch
  relSince,                   \* per sink: releases invoked since the last Switch
  installed,                  \* sinks ever passed to Switch
  pc,                         \* per goroutine: the statement it is at
  mloc,                       \* per mutating goroutine: its call's locals
  wloc,                       \* per logging goroutine: its call's locals
  relCount,                   \* per sink: Close() invocations by goroutines
  fin,                        \* the arguments of the last Println / Printf call
  fout                        \* what format / formatf made of them

progVars == <<Info, Trace, Warn, Error, previousIo, nalloc>>
histVars == <<nops, lastOp, prevSwitch, lastSwitch, closesSince, relSince, installed>>
concVars == <<pc, mloc, wloc, relCount>>
fmtVars == <<fin, fout>>
vars == <<progVars, histVars, concVars, fmtVars>>

Chan(l) ==
  CASE l = "Info" -> Info
    [] l = "Trace" -> Trace
    [] l = "Warn" -> Warn
    [] l = "Error" -> Error

\* op: the call; w: Switch's argument; tracked: previousIo before the call;
\* rel: the sink Close released; relRes: what that release returned; err: what
\* Close returned; lvl, writes: the level of an emit and the writes it made.
NoOp == [op |-> "init", w |-> Nil, err |-> NoErr, rel |-> Nil, relRes |-> NoErr,
         tracked |-> Nil, lvl |-> Nil, writes |-> <<>>]

\* The goroutines: two that call Switch and Close, one that logs.
Mutators == {"m1", "m2"}
Loggers == {"g1"}

\* The goroutines that log side by side while no one calls Switch or Close.
LogCallers == {"g1", "g2"}

\* The writers the goroutines hand to Switch.
ConcWriters == {"f1", "b1"}

\* A nil *loggerPlus.
NoLogger == [id |-> 0, out |-> Nil, prefix |-> ""]

\* call: the call's number; w: Switch's argument; seen: previousIo as read by
\* Close's test; err: Close's result variable; ret: what the last Close
\* returned.
NoCall == [call |-> 0, w |-> Nil, seen |-> Nil, err |-> NoErr, ret |-> NoErr]

\* lvl: the level; v: the channel read; color: the sequence doPrintln chose;
\* writes: the writes made so far; called: a call was made; old: the sink the
\* channel was bound to when the call began; sw: the arguments of the Switch
\* calls that ran during the call; cl: a Close ran during the call; intr:
\* another goroutine wrote to os.Stdout between this call's color-start and
\* its color-reset; late: the line was written to a sink whose Close() had
\* been invoked.
NoEmit == [lvl |-> Nil, v |-> NoLogger, color |-> Nil, writes |-> <<>>,
           called |-> FALSE, old |-> Nil, sw |-> {}, cl |-> FALSE,
           intr |-> FALSE, late |-> FALSE]

----------------------------------------------------------------------------
(* The pieces of Switch and Close *)

\* w.(io.Closer)
IsCloser(w) == w \in Closers

\* Mutant: Info follows the new writer like the other levels.
SwitchInfoOut_ToWriter(w) == w

\* Switch: the sink Info is bound to.
SwitchInfoOut(w) == Discard

\* Switch: the sink Trace, Warn and Error are bound to.
SwitchOut(w) == w

\* Mutant: a closer is tracked only while nothing is tracked yet.
SwitchTracked_KeepFirst(w, prev) == IF w \in Closers /\ prev = Nil THEN w ELSE prev

\* Switch: if w, ok := w.(io.Closer); ok { previousIo = w }
SwitchTracked(w, prev) == IF IsCloser(w) THEN w ELSE prev

\* Close: the sink Info is bound to.
CloseInfoOut == Discard

\* Mutant: Close puts the three levels back on the console.
CloseOut_Console == Stdout

\* Close: the sink Trace, Warn and Error are bound to.
CloseOut == Discard

\* Mutant: the tracking slot is not cleared.
CloseTracked_Keep(prev) == prev

\* Close: previousIo = nil (inside the if).
CloseTracked(prev) == Nil

\* Mutant: the release's error is dropped.
CloseErr_Swallow(prev, res) == NoErr

\* Close: err = previousIo.Close() when previousIo != nil; res is what the
\* sink's Close() returns.
CloseErr(prev, res) == IF prev # Nil THEN res ELSE NoErr

\* Mutant: the call of the tracked sink's Close() is missing.
CloseReleases_None(prev) == Nil

\* Close: the sink whose Close() is invoked, if any.
CloseReleases(prev) == prev

----------------------------------------------------------------------------
(* The correlation tag: format and formatf, and the fmt functions they and  *)
(* the log package use.  A string is a sequence of characters; a format is  *)
(* a sequence of characters and verbs ("%v", and "%[1]v", the verb with an  *)
(* explicit argument index).                                                *)

\* The values a caller passes: ints and strings.
IntV(n) == [t |-> "int", i |-> n, s |-> <<>>]
StrV(str) == [t |-> "str", i |-> 0, s |-> str]

\* A Context: nil, a cidContext with its Cid(), or a value of another type.
NilCtx == [kind |-> "nil", cid |-> 0]
CidCtx(n) == [kind |-> "cid", cid |-> n]
OtherCtx == [kind |-> "other", cid |-> 0]

Digit(d) ==
  CASE d = 0 -> "0" [] d = 1 -> "1" [] d = 2 -> "2" [] d = 3 -> "3" [] d = 4 -> "4"
    [] d = 5 -> "5" [] d = 6 -> "6" [] d = 7 -> "7" [] d = 8 -> "8" [] d = 9 -> "9"

RECURSIVE Digits(_)
Digits(n) == IF n < 10 THEN <<Digit(n)>> ELSE Append(Digits(n \div 10), Digit(n % 10))

\* %v of a value.
FmtV(x) ==
  IF x.t = "int"
    THEN IF x.i < 0 THEN <<"-">> \o Digits(-x.i) ELSE Digits(x.i)
    ELSE x.s

Verbs == {"%v", "%[1]v"}

\* fmt.Sprintf from token k of format f on, argNum arguments consumed,
\* reordered: an explicit index was used (no EXTRA report then).
RECURSIVE SprintfFrom(_, _, _, _, _)
SprintfFrom(f, a, k, argNum, reordered) ==
  IF k > Len(f)
    THEN IF ~reordered /\ argNum < Len(a) THEN <<"%!(EXTRA)">> ELSE <<>>
    ELSE IF f[k] \notin Verbs
           THEN <<f[k]>> \o SprintfFrom(f, a, k + 1, argNum, reordered)
           ELSE LET n == IF f[k] = "%[1]v" THEN 0 ELSE argNum
                    r == reordered \/ f[k] = "%[1]v" IN
                IF n < Len(a)
                  THEN FmtV(a[n + 1]) \o SprintfFrom(f, a, k + 1, n + 1, r)
                  ELSE <<IF f[k] = "%[1]v" THEN "%!v(BADINDEX)" ELSE "%!v(MISSING)">>
                         \o SprintfFrom(f, a, k + 1, n, r)

Sprintf(f, a) == SprintfFrom(f, a, 1, 0, FALSE)

\* fmt.Sprintln: the operands in %v form, a space between any two, and a
\* newline.
RECURSIVE Sprintln(_)
Sprintln(a) ==
  IF a = <<>> THEN <<"\n">>
  ELSE IF Len(a) = 1 THEN FmtV(a[1]) \o <<"\n">>
  ELSE FmtV(a[1]) \o <<" ">> \o Sprintln(Tail(a))

\* The formats "[%v] " and "[%v][%v] ".
PidFormat == <<"[", "%v", "]", " ">>
PidCidFormat == <<"[", "%v", "]", "[", "%v", "]", " ">>

\* Mutant: the correlation id is put before the process id.
format_CidFirst(pid, ctx, a) ==
  IF ctx.kind = "nil"
    THEN <<StrV(Sprintf(PidFormat, <<IntV(pid)>>))>> \o a
    ELSE IF ctx.kind = "cid"
           THEN <<StrV(Sprintf(PidCidFormat, <<IntV(ctx.cid), IntV(pid)>>))>> \o a
           ELSE a

\* Mutant: the test for a nil context is missing.
format_NoNilCase(pid, ctx, a) ==
  IF ctx.kind = "cid"
    THEN <<StrV(Sprintf(PidCidFormat, <<IntV(pid), IntV(ctx.cid)>>))>> \o a
    ELSE a

\* loggerPlus.format
format(pid, ctx, a) ==
  IF ctx.kind = "nil"
    THEN <<StrV(Sprintf(PidFormat, <<IntV(pid)>>))>> \o a
    ELSE IF ctx.kind = "cid"
           THEN <<StrV(Sprintf(PidCidFormat, <<IntV(pid), IntV(ctx.cid)>>))>> \o a
           ELSE a

\* Mutant: every context without a Cid() is treated like nil.
formatf_TagOther(pid, ctx, f, a) ==
  IF ctx.kind = "cid"
    THEN [f |-> PidCidFormat \o f, a |-> <<IntV(pid), IntV(ctx.cid)>> \o a]
    ELSE [f |-> PidFormat \o f, a |-> <<IntV(pid)>> \o a]

\* loggerPlus.formatf
formatf(pid, ctx, f, a) ==
  IF ctx.kind = "nil"
    THEN [f |-> PidFormat \o f, a |-> <<IntV(pid)>> \o a]
    ELSE IF ctx.kind = "cid"
           THEN [f |-> PidCidFormat \o f, a |-> <<IntV(pid), IntV(ctx.cid)>> \o a]
           ELSE [f |-> f, a |-> a]

\* The inputs of the calls: os.Getpid(), contexts, argument lists, formats.
Pids == {7, 1234}
Ctxs == {NilCtx, CidCtx(0), CidCtx(12), CidCtx(-3), OtherCtx}
ArgLists == {<<>>, <<StrV(<<"h", "i">>)>>, <<StrV(<<"x">>), IntV(5)>>, <<StrV(<<"[", "9", "]">>)>>}
Formats == {<<>>, <<"%v">>, <<"a", "=", "%v", " ", "%v">>, <<"%[1]v">>}

\* prim: the method called; text: what the logger writes after its header.
NoArgs == [prim |-> "none", lvl |-> Nil, pid |-> 0, ctx |-> NilCtx, f |-> <<>>, a |-> <<>>]
NoResult == [f |-> <<>>, a |-> <<>>, text |-> <<>>]

\* v.Println(ctx, a...): v.doPrintln(v.format(ctx, a...)...), which hands the
\* arguments to log.Logger.Println.
CallPrintln(l, pid, ctx, a) ==
  /\ fin' = [NoArgs EXCEPT !.prim = "Println", !.lvl = l, !.pid = pid, !.ctx = ctx, !.a = a]
  /\ fout' = [NoResult EXCEPT !.a = format(pid, ctx, a),
                               !.text = Sprintln(format(pid, ctx, a))]
  /\ UNCHANGED <<progVars, histVars, concVars>>

\* v.Printf(ctx, format, a...): v.doPrintf(v.formatf(ctx, format, a...)),
\* which hands format and arguments to log.Logger.Printf.
CallPrintf(l, pid, ctx, f, a) ==
  /\ fin' = [NoArgs EXCEPT !.prim = "Printf", !.lvl = l, !.pid = pid, !.ctx = ctx,
                           !.f = f, !.a = a]
  /\ fout' = LET r == formatf(pid, ctx, f, a) IN
               [f |-> r.f, a |-> r.a, text |-> Sprintf(r.f, r.a)]
  /\ UNCHANGED <<progVars, histVars, concVars>>

----------------------------------------------------------------------------
(* The write path *)

Wr(to, what) == [to |-> to, what |-> what]

\* Mutant: the else branch, for a tracked closer, is missing.
doPrint_NoElse(v, prev, err, warn) ==
  IF prev = Nil
    THEN IF v = err
           THEN <<Wr(Stdout, colorRed), Wr(v.out, "line"), Wr(Stdout, colorBlack)>>
           ELSE IF v = warn
                  THEN <<Wr(Stdout, colorYellow), Wr(v.out, "line"), Wr(Stdout, colorBlack)>>
                  ELSE <<Wr(v.out, "line")>>
    ELSE <<>>

\* doPrintln / doPrintf: the writes one call performs, in order. v is the
\* receiver; prev, err, warn are the values read from previousIo, Error, Warn.
doPrint(v, prev, err, warn) ==
  IF prev = Nil
    THEN IF v = err
           THEN <<Wr(Stdout, colorRed), Wr(v.out, "line"), Wr(Stdout, colorBlack)>>
           ELSE IF v = warn
                  THEN <<Wr(Stdout, colorYellow), Wr(v.out, "line"), Wr(Stdout, colorBlack)>>
                  ELSE <<Wr(v.out, "line")>>
    ELSE <<Wr(v.out, "line")>>

\* loggerPlus.Println / Printf: format the tag, then doPrintln / doPrintf.
Println(v, prev, err, warn) == doPrint(v, prev, err, warn)

----------------------------------------------------------------------------
(* Sequential operations *)

Init ==
  /\ Info = NewLoggerPlus(1, Discard, logInfoLabel)
  /\ Trace = NewLoggerPlus(2, Stdout, logTraceLabel)
  /\ Warn = NewLoggerPlus(3, Stdout, logWarnLabel)
  /\ Error = NewLoggerPlus(4, Stdout, logErrorLabel)
  /\ previousIo = Nil
  /\ nalloc = 4
  /\ nops = 0
  /\ lastOp = NoOp
  /\ prevSwitch = Nil
  /\ lastSwitch = Nil
  /\ closesSince = 0
  /\ relSince = [s \in Writers |-> 0]
  /\ installed = {}
  /\ pc = [t \in Mutators \cup Loggers |-> "idle"]
  /\ mloc = [m \in Mutators |-> NoCall]
  /\ wloc = [g \in Loggers |-> NoEmit]
  /\ relCount = [s \in Writers |-> 0]
  /\ fin = NoArgs
  /\ fout = NoResult

Switch(w) ==
  /\ nops < MaxOps
  /\ Info' = NewLoggerPlus(nalloc + 1, SwitchInfoOut(w), logInfoLabel)
  /\ Trace' = NewLoggerPlus(nalloc + 2, SwitchOut(w), logTraceLabel)
  /\ Warn' = NewLoggerPlus(nalloc + 3, SwitchOut(w), logWarnLabel)
  /\ Error' = NewLoggerPlus(nalloc + 4, SwitchOut(w), logErrorLabel)
  /\ previousIo' = SwitchTracked(w, previousIo)
  /\ nalloc' = nalloc + 4
  /\ nops' = nops + 1
  /\ lastOp' = [NoOp EXCEPT !.op = "Switch", !.w = w, !.tracked = previousIo]
  /\ prevSwitch' = lastSwitch
  /\ lastSwitch' = w
  /\ closesSince' = 0
  /\ relSince' = [s \in Writers |-> 0]
  /\ installed' = installed \cup {w}
  /\ UNCHANGED concVars
  /\ UNCHANGED fmtVars

Close ==
  /\ nops < MaxOps
  /\ \E res \in CloseResults :
       LET rel == CloseReleases(previousIo) IN
       /\ Info' = NewLoggerPlus(nalloc + 1, CloseInfoOut, logInfoLabel)
       /\ Trace' = NewLoggerPlus(nalloc + 2, CloseOut, logTraceLabel)
       /\ Warn' = NewLoggerPlus(nalloc + 3, CloseOut, logWarnLabel)
       /\ Error' = NewLoggerPlus(nalloc + 4, CloseOut, logErrorLabel)
       /\ previousIo' = IF previousIo # Nil THEN CloseTracked(previousIo) ELSE previousIo
       /\ lastOp' = [NoOp EXCEPT !.op = "Close", !.err = CloseErr(previousIo, res),
                                 !.rel = rel, !.tracked = previousIo,
                                 !.relRes = IF rel # Nil THEN res ELSE NoErr]
       /\ relSince' = IF rel # Nil
                        THEN [relSince EXCEPT ![rel] = @ + 1]
                        ELSE relSince
  /\ nalloc' = nalloc + 4
  /\ nops' = nops + 1
  /\ closesSince' = closesSince + 1
  /\ UNCHANGED <<prevSwitch, lastSwitch, installed>>
  /\ UNCHANGED concVars
  /\ UNCHANGED fmtVars

\* I, T, W, E (and If, Tf, Wf, Ef): read the channel, write through it.
Emit(l) ==
  /\ lastOp' = [NoOp EXCEPT !.op = "Emit", !.lvl = l,
                            !.writes = Println(Chan(l), previousIo, Error, Warn)]
  /\ UNCHANGED <<progVars, nops, prevSwitch, lastSwitch, closesSince, relSince, installed>>
  /\ UNCHANGED concVars
  /\ UNCHANGED fmtVars

Next ==
  \/ \E w \in Writers : Switch(w)
  \/ Close
  \/ \E l \in Levels : Emit(l)

Spec == Init /\ [][Next]_vars

\* Println and Printf calls alone, on every input.
NextFmt ==
  \/ \E l \in Levels : \E pid \in Pids : \E ctx \in Ctxs : \E a \in ArgLists :
       CallPrintln(l, pid, ctx, a)
  \/ \E l \in Levels : \E pid \in Pids : \E ctx \in Ctxs : \E f \in Formats :
       \E a \in ArgLists : CallPrintf(l, pid, ctx, f, a)

SpecFmt == Init /\ [][NextFmt]_vars


----------------------------------------------------------------------------
(* The same operations run by goroutines, one statement at a time.  The     *)
(* code takes no lock and uses no atomic: every read and write of Info,     *)
(* Trace, Warn, Error and previousIo is a step of its own.                  *)
(*                                                                          *)
(* A channel is published by a plain store of a pointer to a loggerPlus     *)
(* built just before (p.logger = l; Trace = p).  Nothing orders the two     *)
(* stores for another goroutine, so a goroutine that reads the new pointer  *)
(* may still read a nil p.logger (Go memory model, "incorrect               *)
(* synchronization": observing g != nil does not guarantee observing the    *)
(* initialised g.msg).  The model allows this for the object a goroutine    *)
(* stored with its latest statement, until that goroutine's next statement  *)
(* (Unpublished).                                                           *)

\* A panic that no one recovers ends the process.
Alive == \A t \in DOMAIN pc : pc[t] # "panic"

InCall(g) == pc[g] \notin {"idle", "panic"}

\* The statements of Switch and Close at which a mutating goroutine can be.
SwitchPcs == {"s181", "s182", "s183", "s184", "s186"}
ClosePcs == {"c197", "c198", "c199", "c200", "c202", "c203", "c204"}

\* The address of the k-th loggerPlus goroutine m's current call allocates
\* (init allocated 1..4).
NewId(m, k) == Cardinality(Levels) * mloc[m].call + k

\* The number of loggerPlus objects goroutine m's call has stored so far, by
\* the statement it is at.
Stored(m) ==
  CASE pc[m] \in {"s182", "c198"} -> 1
    [] pc[m] \in {"s183", "c199"} -> 2
    [] pc[m] \in {"s184", "c200"} -> 3
    [] pc[m] \in {"s186", "c202"} -> 4
    [] OTHER -> 0

\* v was stored by the latest statement of a goroutine that has not moved on:
\* its logger field may still read as nil elsewhere.
Unpublished(v) ==
  \E m \in Mutators : Stored(m) # 0 /\ v.id = NewId(m, Stored(m))

\* p := NewLoggerPlus(...); <global> = p, by goroutine m.
AllocStep(m, next) ==
  /\ nalloc' = nalloc + 1
  /\ pc' = [pc EXCEPT ![m] = next]

SwitchCall(m, w) ==
  /\ Alive
  /\ pc[m] = "idle"
  /\ nops < MaxConcOps
  /\ nops' = nops + 1
  /\ pc' = [pc EXCEPT ![m] = "s181"]
  /\ mloc' = [mloc EXCEPT ![m] = [NoCall EXCEPT !.call = nops + 1, !.w = w]]
  /\ wloc' = [g \in DOMAIN wloc |->
                IF InCall(g) THEN [wloc[g] EXCEPT !.sw = @ \cup {w}] ELSE wloc[g]]
  /\ UNCHANGED <<progVars, lastOp, prevSwitch, lastSwitch, closesSince, relSince,
                 installed, relCount>>
  /\ UNCHANGED fmtVars

Switch181(m) ==
  /\ Alive
  /\ pc[m] = "s181"
  /\ Info' = NewLoggerPlus(NewId(m, 1), SwitchInfoOut(mloc[m].w), logInfoLabel)
  /\ AllocStep(m, "s182")
  /\ UNCHANGED <<Trace, Warn, Error, previousIo, histVars, mloc, wloc, relCount>>
  /\ UNCHANGED fmtVars

Switch182(m) ==
  /\ Alive
  /\ pc[m] = "s182"
  /\ Trace' = NewLoggerPlus(NewId(m, 2), SwitchOut(mloc[m].w), logTraceLabel)
  /\ AllocStep(m, "s183")
  /\ UNCHANGED <<Info, Warn, Error, previousIo, histVars, mloc, wloc, relCount>>
  /\ UNCHANGED fmtVars

Switch183(m) ==
  /\ Alive
  /\ pc[m] = "s183"
  /\ Warn' = NewLoggerPlus(NewId(m, 3), SwitchOut(mloc[m].w), logWarnLabel)
  /\ AllocStep(m, "s184")
  /\ UNCHANGED <<Info, Trace, Error, previousIo, histVars, mloc, wloc, relCount>>
  /\ UNCHANGED fmtVars

Switch184(m) ==
  /\ Alive
  /\ pc[m] = "s184"
  /\ Error' = NewLoggerPlus(NewId(m, 4), SwitchOut(mloc[m].w), logErrorLabel)
  /\ AllocStep(m, "s186")
  /\ UNCHANGED <<Info, Trace, Warn, previousIo, histVars, mloc, wloc, relCount>>
  /\ UNCHANGED fmtVars

Switch186(m) ==
  /\ Alive
  /\ pc[m] = "s186"
  /\ previousIo' = SwitchTracked(mloc[m].w, previousIo)
  /\ pc' = [pc EXCEPT ![m] = "idle"]
  /\ mloc' = [mloc EXCEPT ![m] = NoCall]
  /\ UNCHANGED <<Info, Trace, Warn, Error, nalloc, histVars, wloc, relCount>>
  /\ UNCHANGED fmtVars

CloseCall(m) ==
  /\ Alive
  /\ pc[m] = "idle"
  /\ nops < MaxConcOps
  /\ nops' = nops + 1
  /\ pc' = [pc EXCEPT ![m] = "c197"]
  /\ mloc' = [mloc EXCEPT ![m] = [NoCall EXCEPT !.call = nops + 1]]
  /\ wloc' = [g \in DOMAIN wloc |->
                IF InCall(g) THEN [wloc[g] EXCEPT !.cl = TRUE] ELSE wloc[g]]
  /\ UNCHANGED <<progVars, lastOp, prevSwitch, lastSwitch, closesSince, relSince,
                 installed, relCount>>
  /\ UNCHANGED fmtVars

Close197(m) ==
  /\ Alive
  /\ pc[m] = "c197"
  /\ Info' = NewLoggerPlus(NewId(m, 1), CloseInfoOut, logInfoLabel)
  /\ AllocStep(m, "c198")
  /\ UNCHANGED <<Trace, Warn, Error, previousIo, histVars, mloc, wloc, relCount>>
  /\ UNCHANGED fmtVars

Close198(m) ==
  /\ Alive
  /\ pc[m] = "c198"
  /\ Trace' = NewLoggerPlus(NewId(m, 2), CloseOut, logTraceLabel)
  /\ AllocStep(m, "c199")
  /\ UNCHANGED <<Info, Warn, Error, previousIo, histVars, mloc, wloc, relCount>>
  /\ UNCHANGED fmtVars

Close199(m) ==
  /\ Alive
  /\ pc[m] = "c199"
  /\ Warn' = NewLoggerPlus(NewId(m, 3), CloseOut, logWarnLabel)
  /\ AllocStep(m, "c200")
  /\ UNCHANGED <<Info, Trace, Error, previousIo, histVars, mloc, wloc, relCount>>
  /\ UNCHANGED fmtVars

Close200(m) ==
  /\ Alive
  /\ pc[m] = "c200"
  /\ Error' = NewLoggerPlus(NewId(m, 4), CloseOut, logErrorLabel)
  /\ AllocStep(m, "c202")
  /\ UNCHANGED <<Info, Trace, Warn, previousIo, histVars, mloc, wloc, relCount>>
  /\ UNCHANGED fmtVars

\* if previousIo != nil
Close202(m) ==
  /\ Alive
  /\ pc[m] = "c202"
  /\ IF previousIo # Nil
       THEN /\ pc' = [pc EXCEPT ![m] = "c203"]
            /\ mloc' = [mloc EXCEPT ![m].seen = previousIo]
       ELSE /\ pc' = [pc EXCEPT ![m] = "idle"]
            /\ mloc' = [mloc EXCEPT ![m] = [NoCall EXCEPT !.ret = CloseErr(previousIo, NoErr)]]
  /\ UNCHANGED <<progVars, histVars, wloc, relCount>>
  /\ UNCHANGED fmtVars

\* err = previousIo.Close(): on the value the test read, or on the variable
\* read again (nil by now if another Close cleared it: a nil dereference).
Close203(m) ==
  /\ Alive
  /\ pc[m] = "c203"
  /\ \E target \in {CloseReleases(mloc[m].seen), CloseReleases(previousIo)} :
       IF target = Nil
         THEN /\ pc' = [pc EXCEPT ![m] = "panic"]
              /\ UNCHANGED <<mloc, relCount>>
         ELSE \E res \in CloseResults :
                /\ relCount' = [relCount EXCEPT ![target] = @ + 1]
                /\ mloc' = [mloc EXCEPT ![m].err = CloseErr(target, res)]
                /\ pc' = [pc EXCEPT ![m] = "c204"]
  /\ UNCHANGED <<progVars, histVars, wloc>>
  /\ UNCHANGED fmtVars

\* previousIo = nil; return
Close204(m) ==
  /\ Alive
  /\ pc[m] = "c204"
  /\ previousIo' = CloseTracked(previousIo)
  /\ mloc' = [mloc EXCEPT ![m] = [NoCall EXCEPT !.ret = mloc[m].err]]
  /\ pc' = [pc EXCEPT ![m] = "idle"]
  /\ UNCHANGED <<Info, Trace, Warn, Error, nalloc, histVars, wloc, relCount>>
  /\ UNCHANGED fmtVars

\* Goroutine g writes to the writer `to`, its locals becoming wl[g]: the write
\* lands on os.Stdout behind whatever the other goroutines have written there,
\* so it falls inside the colored section of every goroutine that has written
\* its color-start and not yet its color-reset.
WriteBy(g, to, wl) ==
  [h \in DOMAIN wl |->
     IF h # g /\ to = Stdout /\ wl[h].color # Nil /\ pc[h] \in {"line", "post"}
       THEN [wl[h] EXCEPT !.intr = TRUE]
       ELSE wl[h]]

\* A goroutine calls I, T, W or E.
EmitCall(g, l) ==
  /\ Alive
  /\ pc[g] = "idle"
  /\ pc' = [pc EXCEPT ![g] = "read"]
  /\ wloc' = [wloc EXCEPT ![g] =
                [NoEmit EXCEPT !.lvl = l, !.called = TRUE, !.old = Chan(l).out,
                               !.sw = {mloc[m].w : m \in {x \in Mutators : pc[x] \in SwitchPcs}},
                               !.cl = \E m \in Mutators : pc[m] \in ClosePcs]]
  /\ UNCHANGED <<progVars, histVars, mloc, relCount>>
  /\ UNCHANGED fmtVars

\* Trace.Println(ctx, a...): the read of the package variable.
EmitRead(g) ==
  /\ Alive
  /\ pc[g] = "read"
  /\ wloc' = [wloc EXCEPT ![g].v = Chan(wloc[g].lvl)]
  /\ pc' = [pc EXCEPT ![g] = "l74"]
  /\ UNCHANGED <<progVars, histVars, mloc, relCount>>
  /\ UNCHANGED fmtVars

\* if previousIo == nil
Emit74(g) ==
  /\ Alive
  /\ pc[g] = "l74"
  /\ pc' = [pc EXCEPT ![g] = IF previousIo = Nil THEN "l75" ELSE "line"]
  /\ UNCHANGED <<progVars, histVars, mloc, wloc, relCount>>
  /\ UNCHANGED fmtVars

\* if v == Error
Emit75(g) ==
  /\ Alive
  /\ pc[g] = "l75"
  /\ IF wloc[g].v = Error
       THEN /\ wloc' = [wloc EXCEPT ![g].color = colorRed]
            /\ pc' = [pc EXCEPT ![g] = "pre"]
       ELSE /\ pc' = [pc EXCEPT ![g] = "l79"]
            /\ UNCHANGED wloc
  /\ UNCHANGED <<progVars, histVars, mloc, relCount>>
  /\ UNCHANGED fmtVars

\* else if v == Warn
Emit79(g) ==
  /\ Alive
  /\ pc[g] = "l79"
  /\ IF wloc[g].v = Warn
       THEN /\ wloc' = [wloc EXCEPT ![g].color = colorYellow]
            /\ pc' = [pc EXCEPT ![g] = "pre"]
       ELSE /\ pc' = [pc EXCEPT ![g] = "line"]
            /\ UNCHANGED wloc
  /\ UNCHANGED <<progVars, histVars, mloc, relCount>>
  /\ UNCHANGED fmtVars

\* fmt.Fprintf(os.Stdout, colorRed / colorYellow)
EmitPre(g) ==
  /\ Alive
  /\ pc[g] = "pre"
  /\ wloc' = WriteBy(g, Stdout,
                     [wloc EXCEPT ![g].writes = Append(@, Wr(Stdout, wloc[g].color))])
  /\ pc' = [pc EXCEPT ![g] = "line"]
  /\ UNCHANGED <<progVars, histVars, mloc, relCount>>
  /\ UNCHANGED fmtVars

\* v.logger.Println(args...): v.logger is read here; nil if the store that
\* set it is not visible yet.
EmitLine(g) ==
  /\ Alive
  /\ pc[g] = "line"
  /\ \E nilLogger \in IF Unpublished(wloc[g].v) THEN BOOLEAN ELSE {FALSE} :
     IF nilLogger
       THEN /\ pc' = [pc EXCEPT ![g] = "panic"]
            /\ UNCHANGED wloc
       ELSE /\ wloc' = WriteBy(g, wloc[g].v.out,
                          [wloc EXCEPT ![g].writes = Append(@, Wr(wloc[g].v.out, "line")),
                                       ![g].late = /\ wloc[g].v.out \in DOMAIN relCount
                                                   /\ relCount[wloc[g].v.out] > 0])
            /\ pc' = [pc EXCEPT ![g] = IF wloc[g].color # Nil THEN "post" ELSE "ret"]
  /\ UNCHANGED <<progVars, histVars, mloc, relCount>>
  /\ UNCHANGED fmtVars

\* fmt.Fprintf(os.Stdout, colorBlack)
EmitPost(g) ==
  /\ Alive
  /\ pc[g] = "post"
  /\ wloc' = WriteBy(g, Stdout,
                     [wloc EXCEPT ![g].writes = Append(@, Wr(Stdout, colorBlack))])
  /\ pc' = [pc EXCEPT ![g] = "ret"]
  /\ UNCHANGED <<progVars, histVars, mloc, relCount>>
  /\ UNCHANGED fmtVars

\* The call returns to the goroutine.
EmitReturn(g) ==
  /\ Alive
  /\ pc[g] = "ret"
  /\ wloc' = [wloc EXCEPT ![g] = NoEmit]
  /\ pc' = [pc EXCEPT ![g] = "idle"]
  /\ UNCHANGED <<progVars, histVars, mloc, relCount>>
  /\ UNCHANGED fmtVars

NextConc ==
  \/ \E m \in Mutators : \E w \in ConcWriters : SwitchCall(m, w)
  \/ \E m \in Mutators : Switch181(m)
  \/ \E m \in Mutators : Switch182(m)
  \/ \E m \in Mutators : Switch183(m)
  \/ \E m \in Mutators : Switch184(m)
  \/ \E m \in Mutators : Switch186(m)
  \/ \E m \in Mutators : CloseCall(m)
  \/ \E m \in Mutators : Close197(m)
  \/ \E m \in Mutators : Close198(m)
  \/ \E m \in Mutators : Close199(m)
  \/ \E m \in Mutators : Close200(m)
  \/ \E m \in Mutators : Close202(m)
  \/ \E m \in Mutators : Close203(m)
  \/ \E m \in Mutators : Close204(m)
  \/ \E g \in Loggers : \E l \in Levels : EmitCall(g, l)
  \/ \E g \in Loggers : EmitRead(g)
  \/ \E g \in Loggers : Emit74(g)
  \/ \E g \in Loggers : Emit75(g)
  \/ \E g \in Loggers : Emit79(g)
  \/ \E g \in Loggers : EmitPre(g)
  \/ \E g \in Loggers : EmitLine(g)
  \/ \E g \in Loggers : EmitPost(g)
  \/ \E g \in Loggers : EmitReturn(g)

SpecConc == Init /\ [][NextConc]_vars

\* Several goroutines log at once from the state init leaves; no goroutine
\* calls Switch or Close.
InitLog ==
  /\ Info = NewLoggerPlus(1, Discard, logInfoLabel)
  /\ Trace = NewLoggerPlus(2, Stdout, logTraceLabel)
  /\ Warn = NewLoggerPlus(3, Stdout, logWarnLabel)
  /\ Error = NewLoggerPlus(4, Stdout, logErrorLabel)
  /\ previousIo = Nil
  /\ nalloc = 4
  /\ nops = 0
  /\ lastOp = NoOp
  /\ prevSwitch = Nil
  /\ lastSwitch = Nil
  /\ closesSince = 0
  /\ relSince = [s \in Writers |-> 0]
  /\ installed = {}
  /\ pc = [t \in Mutators \cup LogCallers |-> "idle"]
  /\ mloc = [m \in Mutators |-> NoCall]
  /\ wloc = [g \in LogCallers |-> NoEmit]
  /\ relCount = [s \in Writers |-> 0]
  /\ fin = NoArgs
  /\ fout = NoResult

NextLog ==
  \/ \E g \in LogCallers : \E l \in Levels : EmitCall(g, l)
  \/ \E g \in LogCallers : EmitRead(g)
  \/ \E g \in LogCallers : Emit74(g)
  \/ \E g \in LogCallers : Emit75(g)
  \/ \E g \in LogCallers : Emit79(g)
  \/ \E g \in LogCallers : EmitPre(g)
  \/ \E g \in LogCallers : EmitLine(g)
  \/ \E g \in LogCallers : EmitPost(g)
  \/ \E g \in LogCallers : EmitReturn(g)

SpecLog == InitLog /\ [][NextLog]_vars

\* The goroutines start after the program has called Switch("f1") once: the
\* four channels are the objects that call made (addressed 1..4 here) and f1
\* is tracked.
InitInstalled ==
  /\ Info = NewLoggerPlus(1, SwitchInfoOut("f1"), logInfoLabel)
  /\ Trace = NewLoggerPlus(2, SwitchOut("f1"), logTraceLabel)
  /\ Warn = NewLoggerPlus(3, SwitchOut("f1"), logWarnLabel)
  /\ Error = NewLoggerPlus(4, SwitchOut("f1"), logErrorLabel)
  /\ previousIo = SwitchTracked("f1", Nil)
  /\ nalloc = 4
  /\ nops = 0
  /\ lastOp = NoOp
  /\ prevSwitch = Nil
  /\ lastSwitch = "f1"
  /\ closesSince = 0
  /\ relSince = [s \in Writers |-> 0]
  /\ installed = {"f1"}
  /\ pc = [t \in Mutators \cup Loggers |-> "idle"]
  /\ mloc = [m \in Mutators |-> NoCall]
  /\ wloc = [g \in Loggers |-> NoEmit]
  /\ relCount = [s \in Writers |-> 0]
  /\ fin = NoArgs
  /\ fout = NoResult

SpecClose == InitInstalled /\ [][NextConc]_vars

----------------------------------------------------------------------------
(* Properties of the sequential operations (Spec) *)

Colors == {colorYellow, colorRed, colorBlack}

Range(q) == {q[i] : i \in 1..Len(q)}

LineWrites(q) == {x \in Range(q) : x.what = "line"}

ColorWrites(q) == {x \in Range(q) : x.what \in Colors}

\* C1: after Switch(sinkA) then Switch(sinkB), Info writes reach no sink,
\* Trace/Warn/Error lines reach only sinkB, nothing is written to sinkA, and
\* sinkA's Close() is never invoked, also not by a later Close().
C1_SwitchTwice ==
  (prevSwitch # Nil /\ prevSwitch # lastSwitch) =>
    /\ relSince[prevSwitch] = 0
    /\ (lastOp.op = "Emit" /\ closesSince = 0) =>
         /\ \A x \in Range(lastOp.writes) : x.to # prevSwitch
         /\ lastOp.lvl = "Info" => \A x \in Range(lastOp.writes) : x.to = Discard
         /\ lastOp.lvl # "Info" =>
              LineWrites(lastOp.writes) = {Wr(lastSwitch, "line")}

\* The part of C1 about the writes alone, without the release.
C1_WritesOnly ==
  (prevSwitch # Nil /\ prevSwitch # lastSwitch /\ lastOp.op = "Emit" /\ closesSince = 0) =>
    /\ \A x \in Range(lastOp.writes) : x.to # prevSwitch
    /\ lastOp.lvl = "Info" => \A x \in Range(lastOp.writes) : x.to = Discard
    /\ lastOp.lvl # "Info" => LineWrites(lastOp.writes) = {Wr(lastSwitch, "line")}

\* C2: the second of two successive Close() calls returns no error and
\* releases nothing, and between two Switch calls no sink is released more
\* than once however many times Close() is called.
C2_CloseIdempotent ==
  /\ (closesSince >= 2 /\ lastOp.op = "Close") =>
       (lastOp.err = NoErr /\ lastOp.rel = Nil)
  /\ \A s \in Writers : relSince[s] <= 1

C2_Witness ==
  /\ closesSince >= 2
  /\ lastOp.op = "Close"
  /\ \E s \in Writers : relSince[s] = 1

\* C3: once Switch has been called with any writer, closer or not, a Warn or
\* Error write emits no color sequence.
C3_NoColorAfterSwitch ==
  (installed # {} /\ lastOp.op = "Emit" /\ lastOp.lvl \in {"Warn", "Error"}) =>
    ColorWrites(lastOp.writes) = {}

\* C4: Close() binds all four channels to the discard sink, leaves the
\* tracking slot empty, releases exactly the sink that was tracked and returns
\* what that release returned (an error included); with nothing tracked it
\* releases nothing and returns no error.
C4_CloseEffect ==
  lastOp.op = "Close" =>
    /\ \A l \in Levels : Chan(l).out = Discard
    /\ previousIo = Nil
    /\ lastOp.rel = lastOp.tracked
    /\ lastOp.tracked # Nil => (lastOp.err = lastOp.relRes /\ relSince[lastOp.rel] = 1)
    /\ lastOp.tracked = Nil => lastOp.err = NoErr

C4_Witness ==
  /\ lastOp.op = "Close"
  /\ lastOp.tracked # Nil
  /\ lastOp.err # NoErr
  /\ previousIo = Nil

\* C5: after Close() and before the next Switch, an emit on any level writes
\* nothing to the console or to any writer: neither a line nor a color.
C5_SilentAfterClose ==
  (closesSince >= 1 /\ lastOp.op = "Emit") =>
    \A x \in Range(lastOp.writes) : x.to = Discard

\* C6: the tracking slot is empty or holds one closer passed to Switch; a
\* Switch with a closer leaves exactly that closer tracked; a sink Close()
\* releases was passed to Switch before.
C6_Tracking ==
  /\ previousIo \in Closers \cup {Nil}
  /\ previousIo # Nil => previousIo \in installed
  /\ (lastOp.op = "Switch" /\ IsCloser(lastOp.w)) => previousIo = lastOp.w
  /\ (lastOp.op = "Close" /\ lastOp.rel # Nil) => lastOp.rel \in installed

C6_Witness ==
  /\ lastOp.op = "Switch"
  /\ IsCloser(lastOp.w)
  /\ lastOp.tracked \notin {Nil, lastOp.w}
  /\ previousIo = lastOp.w

\* C7: Info is bound to the discard sink in every state, and an Info write
\* is one line to the discard sink and nothing else.
C7_InfoDiscarded ==
  /\ Info.out = Discard
  /\ (lastOp.op = "Emit" /\ lastOp.lvl = "Info") =>
       lastOp.writes = <<Wr(Discard, "line")>>

C7_Witness ==
  /\ lastOp.op = "Emit"
  /\ lastOp.lvl = "Info"
  /\ lastSwitch # Nil
  /\ closesSince = 0
  /\ Trace.out = lastSwitch

\* What an emit on level l would write in the current state.
WritesNow(l) == Println(Chan(l), previousIo, Error, Warn)

\* What an emit on level l writes before any Switch or Close.
DefaultWrites(l) ==
  CASE l = "Info" -> <<Wr(Discard, "line")>>
    [] l = "Trace" -> <<Wr(Stdout, "line")>>
    [] l = "Warn" -> <<Wr(Stdout, colorYellow), Wr(Stdout, "line"), Wr(Stdout, colorBlack)>>
    [] l = "Error" -> <<Wr(Stdout, colorRed), Wr(Stdout, "line"), Wr(Stdout, colorBlack)>>

BehavesAsDefault == \A l \in Levels : WritesNow(l) = DefaultWrites(l)

----------------------------------------------------------------------------
(* Properties of the goroutines (SpecConc) *)

IsLine(x) == x.what = "line"

\* The sink a Switch(w) binds level l to.
SwitchedOut(l, w) == IF l = "Info" THEN SwitchInfoOut(w) ELSE SwitchOut(w)

\* The sinks a write on g's level may go to when only Switch calls ran during
\* it: the one bound when it began, or one a Switch bound.
OldOrNew(g) ==
  {wloc[g].old} \cup {SwitchedOut(wloc[g].lvl, w) : w \in wloc[g].sw}

\* C8: a Trace, Warn or Error write during which a Switch (and no Close) ran
\* ends normally,
\* having written its line exactly once, to the sink its channel was bound to
\* before or to the one a Switch bound it to: it is never lost, never written
\* twice and never made through a binding that is not fully there.
C8_DeliveredOnce ==
  \A g \in Loggers :
    (pc[g] \in {"ret", "panic"} /\ wloc[g].lvl # "Info"
       /\ wloc[g].sw # {} /\ ~wloc[g].cl) =>
      /\ pc[g] = "ret"
      /\ Len(SelectSeq(wloc[g].writes, IsLine)) = 1
      /\ \A x \in LineWrites(wloc[g].writes) : x.to \in OldOrNew(g)

\* C8 for the writes that end normally only.
C8_WhenItReturns ==
  \A g \in Loggers :
    (pc[g] = "ret" /\ wloc[g].sw # {} /\ ~wloc[g].cl) =>
      /\ Len(SelectSeq(wloc[g].writes, IsLine)) = 1
      /\ \A x \in LineWrites(wloc[g].writes) : x.to \in OldOrNew(g)

\* C9: Trace, Warn and Error are bound to one and the same sink; stated here
\* for the states in which no Switch or Close is running, which are among
\* the states the claim is about.
C9_OneCurrentSink ==
  (\A m \in Mutators : pc[m] = "idle") =>
    (Trace.out = Warn.out /\ Warn.out = Error.out)

----------------------------------------------------------------------------
(* Properties of format and formatf (SpecFmt) *)

\* The decimal form of the process ids and correlation ids used, written out.
Dec(n) ==
  CASE n = 0 -> <<"0">>
    [] n = 7 -> <<"7">>
    [] n = 12 -> <<"1", "2">>
    [] n = 1234 -> <<"1", "2", "3", "4">>
    [] n = -3 -> <<"-", "3">>

\* The tags "[<pid>] " and "[<pid>][<cid>] ".
PidTag(pid) == <<"[">> \o Dec(pid) \o <<"]", " ">>
PidCidTag(pid, cid) == <<"[">> \o Dec(pid) \o <<"]", "[">> \o Dec(cid) \o <<"]", " ">>

\* C11: Println hands the logger one more argument than the caller gave: the
\* tag, "[<pid>] " for a nil context and "[<pid>][<cid>] " for a context with
\* Cid(), followed by the caller's arguments in their order, on every level.
C11_LineTag ==
  fin.prim = "Println" =>
    /\ fin.ctx.kind = "nil" => fout.a = <<StrV(PidTag(fin.pid))>> \o fin.a
    /\ fin.ctx.kind = "cid" =>
         fout.a = <<StrV(PidCidTag(fin.pid, fin.ctx.cid))>> \o fin.a

C11_Witness ==
  /\ fin.prim = "Println"
  /\ fin.ctx = CidCtx(-3)
  /\ fin.pid = 1234
  /\ fin.lvl = "Warn"
  /\ Len(fin.a) = 2
  /\ Len(fout.a) = 3

\* C12: for a context that is not nil and has no Cid(), Println passes the
\* caller's arguments on unchanged, and Printf the caller's format and
\* arguments: nothing is added.
C12_Passthrough ==
  fin.ctx.kind = "other" =>
    /\ fin.prim = "Println" => (fout.a = fin.a /\ fout.text = Sprintln(fin.a))
    /\ fin.prim = "Printf" =>
         (fout.f = fin.f /\ fout.a = fin.a /\ fout.text = Sprintf(fin.f, fin.a))

C12_Witness ==
  /\ fin.ctx.kind = "other"
  /\ fin.prim = "Printf"
  /\ Len(fin.f) > 1
  /\ Len(fin.a) = 2
  /\ fout.a = fin.a

\* What Println's output is when tag is its only tag: the tag, and then the
\* caller's arguments as Sprintln separates and ends them.
TaggedLine(tag, a) == tag \o (IF a = <<>> THEN <<>> ELSE <<" ">>) \o Sprintln(a)

\* C13 as stated: for every context without a Cid(), nil or not, the line
\* Println writes carries "[<pid>] " as its only tag, on every level.
C13_PidTagWithoutCid ==
  (fin.prim = "Println" /\ fin.ctx.kind # "cid") =>
    fout.text = TaggedLine(PidTag(fin.pid), fin.a)

\* C13 amended: for a nil context the line Println writes carries
\* "[<pid>] " as its only tag, on every level.
C13_PidTagForNil ==
  (fin.prim = "Println" /\ fin.ctx.kind = "nil") =>
    fout.text = TaggedLine(PidTag(fin.pid), fin.a)

C13_Witness ==
  /\ fin.prim = "Println"
  /\ fin.ctx.kind = "nil"
  /\ fin.lvl = "Error"
  /\ fin.pid = 7
  /\ fin.a # <<>>
  /\ fout.text # <<>>

\* The tag format makes for a context: the first argument it adds, if any.
TagOf(pid, ctx) == IF ctx.kind = "other" THEN <<>> ELSE format(pid, ctx, <<>>)[1].s

\* The lead-in formatf is to add for a context, and the arguments with it.
LeadIn(ctx) ==
  CASE ctx.kind = "nil" -> <<"[", "%v", "]", " ">>
    [] ctx.kind = "cid" -> <<"[", "%v", "]", "[", "%v", "]", " ">>
    [] ctx.kind = "other" -> <<>>

LeadArgs(pid, ctx) ==
  CASE ctx.kind = "nil" -> <<IntV(pid)>>
    [] ctx.kind = "cid" -> <<IntV(pid), IntV(ctx.cid)>>
    [] ctx.kind = "other" -> <<>>

\* C14: Printf follows the same rule as Println: formatf puts one "[%v]" per
\* tag component before the format and the process id (then the correlation
\* id) before the arguments, so that what is written is the tag format makes
\* for the context followed by the caller's format applied to the caller's
\* arguments.
C14_FormatfLikeFormat ==
  fin.prim = "Printf" =>
    /\ fout.f = LeadIn(fin.ctx) \o fin.f
    /\ fout.a = LeadArgs(fin.pid, fin.ctx) \o fin.a
    /\ fout.text = TagOf(fin.pid, fin.ctx) \o Sprintf(fin.f, fin.a)

\* The part of C14 about what formatf returns.
C14_Prepends ==
  fin.prim = "Printf" =>
    /\ fout.f = LeadIn(fin.ctx) \o fin.f
    /\ fout.a = LeadArgs(fin.pid, fin.ctx) \o fin.a

\* C14 for the formats without an explicit argument index.
C14_WithoutIndex ==
  (fin.prim = "Printf" /\ \A k \in 1..Len(fin.f) : fin.f[k] # "%[1]v") =>
    fout.text = TagOf(fin.pid, fin.ctx) \o Sprintf(fin.f, fin.a)

----------------------------------------------------------------------------
(* More properties of the sequential operations (Spec) *)

C16_ReleasesOnlyLatter ==
  (/\ lastOp.op = "Close"
   /\ closesSince = 1
   /\ prevSwitch # Nil
   /\ ~IsCloser(prevSwitch)
   /\ IsCloser(lastSwitch)) =>
    /\ lastOp.rel = lastSwitch
    /\ relSince[lastSwitch] = 1
    /\ relSince[prevSwitch] = 0

C16_Witness ==
  /\ lastOp.op = "Close"
  /\ closesSince = 1
  /\ prevSwitch = "b1"
  /\ lastSwitch = "f1"
  /\ lastOp.rel = "f1"
  /\ previousIo = Nil

----------------------------------------------------------------------------
(* Properties of goroutines logging side by side (SpecLog) *)

\* C17: with no custom sink and several goroutines logging at once, every
\* Warn/Error line on os.Stdout has its own color-start right before it and
\* its own color-reset right after it, and no write of another goroutine falls
\* between a color-start and its color-reset.
C17_ColorsAroundOwnLine ==
  \A g \in DOMAIN wloc : ~wloc[g].intr

----------------------------------------------------------------------------
(* Properties of concurrent Close calls (SpecClose) *)

\* C18: when Close calls run concurrently, the Close() of a tracked sink is
\* invoked at most once in total, and at most one of the calls returns the
\* error of that Close().
C18_ReleasedAtMostOnce ==
  /\ \A s \in Writers : relCount[s] <= 1
  /\ Cardinality({m \in Mutators : mloc[m].ret # NoErr}) <= 1

----------------------------------------------------------------------------
(* Properties of a goroutine logging while Close runs (SpecConc) *)

\* C19: no line is written to a sink after the Close() of that sink has been
\* invoked: a call that runs alongside Close writes before the release or
\* not at all.
C19_NoWriteAfterRelease ==
  \A g \in DOMAIN wloc : ~wloc[g].late

====
